---- MODULE Spec2Model ----
(***************************************************************************)
(* Model of specdrift / specrift: the path-glob matcher (globmatch.py),    *)
(* the config constructor (specs.py), the drift engine (drift.py) and the  *)
(* check command (cli.py).                                                 *)
(*                                                                         *)
(* Strings are sequences of one-character strings, so that strip, split,   *)
(* startswith and fnmatch are computed on characters as the code does.     *)
(***************************************************************************)
EXTENDS Integers, Sequences, FiniteSets, TLC

VARIABLES pc, path, pattern, matched, raw, spec, exc, changes, report, prev,
          prev_changes, cli

vars == <<pc, path, pattern, matched, raw, spec, exc, changes, report, prev,
          prev_changes, cli>>

(***************************************************************************)
(* Bounds of the explored inputs.                                          *)
(***************************************************************************)
MaxPathSegs == 3
MaxPatSegs == 3
MaxFiles == 2
MaxFindings == 3

(***************************************************************************)
(* String literals used by the code and by the inputs.                     *)
(***************************************************************************)
SLASH == "/"
STARSTAR == <<"*", "*">>
WG_PREFIX == <<".", "w", "o", "r", "k", "g", "r", "a", "p", "h", "/">>
GIT_PREFIX == <<".", "g", "i", "t", "/">>
WG_GLOB == WG_PREFIX \o STARSTAR
GIT_GLOB == GIT_PREFIX \o STARSTAR

(***************************************************************************)
(* Python string primitives.                                               *)
(***************************************************************************)
RECURSIVE lstrip(_)
lstrip(s) == IF s # <<>> /\ Head(s) = SLASH THEN lstrip(Tail(s)) ELSE s

RECURSIVE rstrip(_)
rstrip(s) ==
    IF s # <<>> /\ s[Len(s)] = SLASH THEN rstrip(SubSeq(s, 1, Len(s) - 1)) ELSE s

strip(s) == rstrip(lstrip(s))

\* str.split("/"): always at least one piece, empty pieces are kept.
RECURSIVE split(_)
split(s) ==
    IF \A i \in 1..Len(s) : s[i] # SLASH
    THEN <<s>>
    ELSE LET i == CHOOSE k \in 1..Len(s) :
                      s[k] = SLASH /\ \A m \in 1..(k - 1) : s[m] # SLASH
         IN  <<SubSeq(s, 1, i - 1)>> \o split(SubSeq(s, i + 1, Len(s)))

startswith(s, prefix) ==
    Len(s) >= Len(prefix) /\ SubSeq(s, 1, Len(prefix)) = prefix

\* fnmatch.fnmatchcase on a name and a pattern made of literals, * and ?.
RECURSIVE fnmatchcase(_, _)
fnmatchcase(name, pat) ==
    IF pat = <<>> THEN name = <<>>
    ELSE IF Head(pat) = "*"
         THEN fnmatchcase(name, Tail(pat))
              \/ (name # <<>> /\ fnmatchcase(Tail(name), pat))
    ELSE IF Head(pat) = "?"
         THEN name # <<>> /\ fnmatchcase(Tail(name), Tail(pat))
    ELSE name # <<>> /\ Head(name) = Head(pat)
         /\ fnmatchcase(Tail(name), Tail(pat))

(***************************************************************************)
(* globmatch.py                                                            *)
(***************************************************************************)
NonEmpty(p) == p # <<>>

parts(s) == SelectSeq(split(strip(s)), NonEmpty)

\* ** must consume at least one segment.
RECURSIVE rec_star_needs_one(_, _, _, _)
rec_star_needs_one(path_parts, pat_parts, i, j) ==
    IF j > Len(pat_parts) THEN i > Len(path_parts)
    ELSE IF pat_parts[j] = STARSTAR
         THEN i <= Len(path_parts)
              /\ (rec_star_needs_one(path_parts, pat_parts, i + 1, j + 1)
                  \/ rec_star_needs_one(path_parts, pat_parts, i + 1, j))
    ELSE IF i > Len(path_parts) THEN FALSE
    ELSE IF ~fnmatchcase(path_parts[i], pat_parts[j]) THEN FALSE
    ELSE rec_star_needs_one(path_parts, pat_parts, i + 1, j + 1)

\* An exhausted pattern accepts whatever is left of the path.
RECURSIVE rec_prefix(_, _, _, _)
rec_prefix(path_parts, pat_parts, i, j) ==
    IF j > Len(pat_parts) THEN TRUE
    ELSE IF pat_parts[j] = STARSTAR
         THEN rec_prefix(path_parts, pat_parts, i, j + 1)
              \/ (i <= Len(path_parts)
                  /\ rec_prefix(path_parts, pat_parts, i + 1, j))
    ELSE IF i > Len(path_parts) THEN FALSE
    ELSE IF ~fnmatchcase(path_parts[i], pat_parts[j]) THEN FALSE
    ELSE rec_prefix(path_parts, pat_parts, i + 1, j + 1)

\* Indices are 1-based here, 0-based in the code.
RECURSIVE rec(_, _, _, _)
rec(path_parts, pat_parts, i, j) ==
    IF j > Len(pat_parts) THEN i > Len(path_parts)
    ELSE IF pat_parts[j] = STARSTAR
         THEN rec(path_parts, pat_parts, i, j + 1)
              \/ (i <= Len(path_parts) /\ rec(path_parts, pat_parts, i + 1, j))
    ELSE IF i > Len(path_parts) THEN FALSE
    ELSE IF ~fnmatchcase(path_parts[i], pat_parts[j]) THEN FALSE
    ELSE rec(path_parts, pat_parts, i + 1, j + 1)

match_path(p, pat) == rec(parts(p), parts(pat), 1, 1)

match_any(p, patterns) ==
    \E k \in 1..Len(patterns) : match_path(p, patterns[k])

(***************************************************************************)
(* Inputs of the matcher.                                                  *)
(***************************************************************************)
RECURSIVE join(_)
join(segs) ==
    IF segs = <<>> THEN <<>>
    ELSE IF Len(segs) = 1 THEN segs[1]
    ELSE segs[1] \o <<SLASH>> \o join(Tail(segs))

TuplesUpTo(S, n) == UNION {[1..k -> S] : k \in 0..n}

PathNames == {<<"a">>, <<"b">>, <<"c">>}

PatSegs == {STARSTAR, <<"*">>, <<"c">>, <<"a">>}

PathPool ==
    {join(t) : t \in TuplesUpTo(PathNames, MaxPathSegs)}
    \cup {<<"/">>, <<"/", "a", "/", "b", "/">>, <<"a", "/", "/", "c">>,
          <<"a", "b", "/", "c">>, <<"a", "b", "c">>, <<"*", "*">>}

PatternPool ==
    {join(t) : t \in TuplesUpTo(PatSegs, MaxPatSegs)}
    \cup {<<"/">>, <<"/", "*", "*", "/", "c", "/">>, <<"a", "*", "/", "c">>,
          <<"a", "?">>, <<"?">>, <<"*", "b", "/", "/", "c">>,
          <<"a", "*", "*">>}

(***************************************************************************)
(* Parsed configuration values (what tomllib hands to from_raw). A value   *)
(* is tagged with its kind k: "missing" (key absent), "int", "bool" (n is  *)
(* 1 or 0), "str" (s) or "list" (xs, whose elements are "int" or "str").   *)
(***************************************************************************)
V_missing == [k |-> "missing", n |-> 0, s |-> <<>>, xs |-> <<>>]
V_int(n) == [k |-> "int", n |-> n, s |-> <<>>, xs |-> <<>>]
V_bool(b) == [k |-> "bool", n |-> IF b THEN 1 ELSE 0, s |-> <<>>, xs |-> <<>>]
V_str(s) == [k |-> "str", n |-> 0, s |-> s, xs |-> <<>>]
V_list(xs) == [k |-> "list", n |-> 0, s |-> <<>>, xs |-> xs]
E_str(s) == [k |-> "str", n |-> 0, s |-> s]
E_int(n) == [k |-> "int", n |-> n, s |-> <<>>]

DigitChar == <<"0", "1", "2", "3", "4", "5", "6", "7", "8", "9">>

IsDigit(c) == \E d \in 1..10 : DigitChar[d] = c

DigitVal(c) == (CHOOSE d \in 1..10 : DigitChar[d] = c) - 1

RECURSIVE decimal(_)
decimal(n) ==
    IF n < 0 THEN <<"-">> \o decimal(0 - n)
    ELSE IF n < 10 THEN <<DigitChar[n + 1]>>
    ELSE decimal(n \div 10) \o <<DigitChar[(n % 10) + 1]>>

RECURSIVE digits_value(_, _)
digits_value(s, acc) ==
    IF s = <<>> THEN acc
    ELSE digits_value(Tail(s), 10 * acc + DigitVal(Head(s)))

\* str(x) of a list element.
py_str(e) == IF e.k = "str" THEN e.s ELSE decimal(e.n)

\* Truth value of raw.get(key): an absent key gives None.
truthy(v) ==
    CASE v.k = "missing" -> FALSE
      [] v.k = "int" -> v.n # 0
      [] v.k = "bool" -> v.n # 0
      [] v.k = "str" -> v.s # <<>>
      [] OTHER -> v.xs # <<>>

\* int(raw.get("schema", 1)): the value, or the exception int() raises.
py_int(v) ==
    CASE v.k = "missing" -> [exc |-> "none", value |-> 1]
      [] v.k = "int" -> [exc |-> "none", value |-> v.n]
      [] v.k = "bool" -> [exc |-> "none", value |-> v.n]
      [] v.k = "str" ->
            LET body == IF v.s # <<>> /\ Head(v.s) \in {"-", "+"}
                        THEN Tail(v.s) ELSE v.s
                neg == v.s # <<>> /\ Head(v.s) = "-"
            IN  IF body # <<>> /\ \A i \in 1..Len(body) : IsDigit(body[i])
                THEN [exc |-> "none",
                      value |-> IF neg THEN 0 - digits_value(body, 0)
                                ELSE digits_value(body, 0)]
                ELSE [exc |-> "ValueError", value |-> 0]
      [] OTHER -> [exc |-> "TypeError", value |-> 0]

\* [str(x) for x in (raw.get(key) or [])]
str_list(v) ==
    IF ~truthy(v) THEN [exc |-> "none", value |-> <<>>]
    ELSE CASE v.k = "list" ->
                [exc |-> "none",
                 value |-> [i \in 1..Len(v.xs) |-> py_str(v.xs[i])]]
           [] v.k = "str" ->
                [exc |-> "none", value |-> [i \in 1..Len(v.s) |-> <<v.s[i]>>]]
           [] OTHER -> [exc |-> "TypeError", value |-> <<>>]

\* bool(raw.get(key, True))
py_bool(v) == IF v.k = "missing" THEN TRUE ELSE truthy(v)

(***************************************************************************)
(* specs.py                                                                *)
(***************************************************************************)
SpecriftSpec(schema, spec_globs, require_update, ignore) ==
    [schema |-> schema,
     spec |-> spec_globs,
     require_spec_update_when_code_changes |-> require_update,
     ignore |-> ignore]

\* Value of the local `spec` while it is not bound.
NoSpec == SpecriftSpec(0, <<>>, FALSE, <<>>)

\* The implicit patterns are put in front of the user's.
from_raw_prepend(r) ==
    LET schema == py_int(r.schema)
        spec_globs == str_list(r.spec)
        require_update == py_bool(r.require_spec_update_when_code_changes)
        ignore == str_list(r.ignore)
    IN  IF schema.exc # "none" THEN [exc |-> schema.exc, value |-> NoSpec]
        ELSE IF spec_globs.exc # "none"
             THEN [exc |-> spec_globs.exc, value |-> NoSpec]
        ELSE IF ignore.exc # "none"
             THEN [exc |-> ignore.exc, value |-> NoSpec]
        ELSE [exc |-> "none",
              value |-> SpecriftSpec(schema.value, spec_globs.value,
                                     require_update,
                                     <<WG_GLOB, GIT_GLOB>> \o ignore.value)]

\* A schema that int() rejects falls back to the default instead of raising.
from_raw_default_schema(r) ==
    LET schema == py_int(r.schema)
        spec_globs == str_list(r.spec)
        require_update == py_bool(r.require_spec_update_when_code_changes)
        ignore == str_list(r.ignore)
    IN  IF spec_globs.exc # "none"
        THEN [exc |-> spec_globs.exc, value |-> NoSpec]
        ELSE IF ignore.exc # "none"
             THEN [exc |-> ignore.exc, value |-> NoSpec]
        ELSE [exc |-> "none",
              value |-> SpecriftSpec(
                            IF schema.exc = "none" THEN schema.value ELSE 1,
                            spec_globs.value, require_update,
                            ignore.value \o <<WG_GLOB, GIT_GLOB>>)]

\* The result is the config, or the exception of the first coercion that
\* raises (schema, then spec, then ignore; bool() never raises).
from_raw(r) ==
    LET schema == py_int(r.schema)
        spec_globs == str_list(r.spec)
        require_update == py_bool(r.require_spec_update_when_code_changes)
        ignore == str_list(r.ignore)
    IN  IF schema.exc # "none" THEN [exc |-> schema.exc, value |-> NoSpec]
        ELSE IF spec_globs.exc # "none"
             THEN [exc |-> spec_globs.exc, value |-> NoSpec]
        ELSE IF ignore.exc # "none"
             THEN [exc |-> ignore.exc, value |-> NoSpec]
        ELSE [exc |-> "none",
              value |-> SpecriftSpec(schema.value, spec_globs.value,
                                     require_update,
                                     ignore.value \o <<WG_GLOB, GIT_GLOB>>)]

\* dataclasses.asdict(spec), as a mapping from_raw can read again.
asdict(c) ==
    [schema |-> V_int(c.schema),
     spec |-> V_list([i \in 1..Len(c.spec) |-> E_str(c.spec[i])]),
     require_spec_update_when_code_changes |->
         V_bool(c.require_spec_update_when_code_changes),
     ignore |-> V_list([i \in 1..Len(c.ignore) |-> E_str(c.ignore[i])])]

(***************************************************************************)
(* drift.py                                                                *)
(***************************************************************************)
DETAILS_LIMIT == 50

NoDetails == [present |-> FALSE, spec_globs |-> <<>>, changed_non_spec |-> <<>>]

Finding(kind, severity, summary, details) ==
    [kind |-> kind, severity |-> severity, summary |-> summary,
     details |-> details]

\* WorkingChanges | None: present is FALSE for None.
NoChanges == [present |-> FALSE, changed_files |-> <<>>]

WorkingChanges(files) == [present |-> TRUE, changed_files |-> files]

\* The prefix test is left to the ignore globs.
changed_files_globs_only(c, ch) ==
    IF ch.present
    THEN SelectSeq(ch.changed_files, LAMBDA p : ~match_any(p, c.ignore))
    ELSE <<>>

changed_files_of(c, ch) ==
    IF ch.present
    THEN SelectSeq(ch.changed_files,
                   LAMBDA p : ~(startswith(p, WG_PREFIX)
                                \/ startswith(p, GIT_PREFIX)
                                \/ match_any(p, c.ignore)))
    ELSE <<>>

spec_changed_of(c, changed_files) ==
    SelectSeq(changed_files, LAMBDA p : match_any(p, c.spec))

non_spec_changed_of(c, changed_files) ==
    SelectSeq(changed_files, LAMBDA p : ~match_any(p, c.spec))

unsupported_schema_findings(c) ==
    IF c.schema # 1
    THEN <<Finding("unsupported_schema", "warn",
                   "Unsupported specrift schema: " \o ToString(c.schema)
                       \o " (expected 1)",
                   NoDetails)>>
    ELSE <<>>

invalid_spec_config_findings(c) ==
    IF c.spec = <<>>
    THEN <<Finding("invalid_spec_config", "warn",
                   "specrift spec[] is empty; nothing to keep in sync",
                   NoDetails)>>
    ELSE <<>>

SpecNotUpdated(c, non_spec_changed) ==
    Finding("spec_not_updated", "warn",
            "Non-spec files changed but no spec/doc files changed",
            [present |-> TRUE,
             spec_globs |-> c.spec,
             changed_non_spec |->
                 SubSeq(non_spec_changed, 1,
                        IF Len(non_spec_changed) < DETAILS_LIMIT
                        THEN Len(non_spec_changed) ELSE DETAILS_LIMIT)])

\* The changed spec files are not consulted.
spec_not_updated_findings_no_spec_test(c, changed_files) ==
    LET non_spec_changed == non_spec_changed_of(c, changed_files)
    IN  IF c.require_spec_update_when_code_changes /\ non_spec_changed # <<>>
        THEN <<SpecNotUpdated(c, non_spec_changed)>>
        ELSE <<>>

\* The test on the changed spec files is inverted.
spec_not_updated_findings_inverted(c, changed_files) ==
    LET spec_changed == spec_changed_of(c, changed_files)
        non_spec_changed == non_spec_changed_of(c, changed_files)
    IN  IF c.require_spec_update_when_code_changes
           /\ non_spec_changed # <<>> /\ spec_changed # <<>>
        THEN <<SpecNotUpdated(c, non_spec_changed)>>
        ELSE <<>>

spec_not_updated_findings(c, changed_files) ==
    LET spec_changed == spec_changed_of(c, changed_files)
        non_spec_changed == non_spec_changed_of(c, changed_files)
    IN  IF c.require_spec_update_when_code_changes
           /\ non_spec_changed # <<>> /\ spec_changed = <<>>
        THEN <<SpecNotUpdated(c, non_spec_changed)>>
        ELSE <<>>

\* Nothing is reported when no file is left to classify.
findings_of_early_return(c, changed_files) ==
    IF changed_files = <<>> THEN <<>>
    ELSE unsupported_schema_findings(c)
         \o invalid_spec_config_findings(c)
         \o spec_not_updated_findings(c, changed_files)

\* The drift finding is appended before the two config findings.
findings_of_drift_first(c, changed_files) ==
    spec_not_updated_findings(c, changed_files)
    \o unsupported_schema_findings(c)
    \o invalid_spec_config_findings(c)

findings_of(c, changed_files) ==
    unsupported_schema_findings(c)
    \o invalid_spec_config_findings(c)
    \o spec_not_updated_findings(c, changed_files)

AnySeverity(findings, severity) ==
    \E i \in 1..Len(findings) : findings[i].severity = severity

\* A warn finding leaves the score green.
score_of_warn_ignored(findings) ==
    IF AnySeverity(findings, "error") THEN "red" ELSE "green"

\* Two successive assignments in the code: the later one wins.
score_of(findings) ==
    LET score0 == "green"
        score1 == IF AnySeverity(findings, "warn") THEN "yellow" ELSE score0
    IN  IF AnySeverity(findings, "error") THEN "red" ELSE score1

Recommendation(priority, action, rationale) ==
    [priority |-> priority, action |-> action, rationale |-> rationale]

\* The entries one finding appends to recommendations (none or one).
recommendation_for(f) ==
    IF f.kind = "spec_not_updated"
    THEN <<Recommendation("high",
             "Update spec/docs for this task (or adjust specrift spec globs)",
             "Spec drift is the fastest way to lose intent; keeping docs updated prevents hidden scope/perf regressions later.")>>
    ELSE IF f.kind = "invalid_spec_config"
    THEN <<Recommendation("high",
             "Populate specrift spec[] with the docs/specs that should be updated for this task",
             "Specrift needs an explicit set of spec/doc paths to keep in sync.")>>
    ELSE IF f.kind = "unsupported_schema"
    THEN <<Recommendation("high",
             "Set specrift schema = 1",
             "Only schema v1 is currently supported.")>>
    ELSE <<>>

RECURSIVE collect_recommendations(_)
collect_recommendations(findings) ==
    IF findings = <<>> THEN <<>>
    ELSE recommendation_for(Head(findings))
         \o collect_recommendations(Tail(findings))

\* De-dupe by action while preserving order.
RECURSIVE dedupe_by_action(_, _)
dedupe_by_action(recs, seen_actions) ==
    IF recs = <<>> THEN <<>>
    ELSE IF Head(recs).action \in seen_actions
         THEN dedupe_by_action(Tail(recs), seen_actions)
    ELSE <<Head(recs)>>
         \o dedupe_by_action(Tail(recs), seen_actions \cup {Head(recs).action})

\* The de-duplication pass is missing.
recommendations_of_no_dedupe(findings) == collect_recommendations(findings)

recommendations_of(findings) ==
    dedupe_by_action(collect_recommendations(findings), {})

compute_spec_drift(task_id, task_title, c, git_root, ch) ==
    LET changed_files == changed_files_of(c, ch)
        findings == findings_of(c, changed_files)
    IN  [task_id |-> task_id,
         task_title |-> task_title,
         git_root |-> git_root,
         score |-> score_of(findings),
         spec |-> c,
         telemetry |->
             [files_changed |-> Len(changed_files),
              spec_files_changed |-> Len(spec_changed_of(c, changed_files)),
              non_spec_files_changed |->
                  Len(non_spec_changed_of(c, changed_files))],
         findings |-> findings,
         recommendations |-> recommendations_of(findings)]

(***************************************************************************)
(* Inputs of the drift engine and of the config constructor.               *)
(***************************************************************************)
F_CODE == <<"s", "/", "m">>
F_DOC == <<"d", "/", "a">>
F_GIT == GIT_PREFIX \o <<"c">>
F_WG == WG_PREFIX \o <<"t">>
F_SLASH_GIT == <<"/">> \o GIT_PREFIX \o <<"c">>
F_TMP == <<"t", "/", "x">>

G_DOCS == <<"d", "/", "*", "*">>
G_ANY_C == <<"*", "*", "/", "c">>
G_TMP == <<"t", "/", "*", "*">>

FilePool == {F_CODE, F_DOC, F_GIT, F_WG, F_SLASH_GIT, F_TMP}

\* Configs as from_raw builds them, and configs built directly without the
\* implicit ignore patterns.
ConfigPool ==
    {SpecriftSpec(n, g, r, ig) :
        n \in {1, 2},
        g \in {<<>>, <<G_DOCS>>, <<G_ANY_C>>},
        r \in BOOLEAN,
        ig \in {<<WG_GLOB, GIT_GLOB>>, <<G_TMP, WG_GLOB, GIT_GLOB>>, <<>>}}

ChangesPool ==
    {NoChanges} \cup {WorkingChanges(t) : t \in TuplesUpTo(FilePool, MaxFiles)}

RawPool ==
    [schema : {V_missing, V_int(1), V_int(2), V_str(<<"2">>), V_str(<<"x">>),
               V_bool(TRUE), V_list(<<>>)},
     spec : {V_missing, V_list(<<>>), V_list(<<E_str(G_DOCS)>>),
             V_str(<<"d">>), V_int(5)},
     require_spec_update_when_code_changes :
            {V_missing, V_bool(FALSE), V_int(0), V_str(<<"n">>)},
     ignore : {V_missing, V_list(<<E_str(G_TMP)>>),
               V_list(<<E_str(GIT_GLOB)>>),
               V_list(<<E_str(WG_GLOB), E_str(GIT_GLOB)>>),
               V_list(<<E_int(3)>>), V_int(7), V_bool(TRUE)}]

CliChangesPool ==
    {NoChanges, WorkingChanges(<<F_CODE>>), WorkingChanges(<<F_CODE, F_DOC>>),
     WorkingChanges(<<F_GIT, F_TMP>>)}

FindingPool ==
    {Finding(kind, severity, "", NoDetails) :
        kind \in {"spec_not_updated", "invalid_spec_config",
                  "unsupported_schema", "invalid_specrift_spec"},
        severity \in {"warn", "error"}}

TASK_ID == "task-1"
TASK_TITLE == "Task 1"

\* get_git_root: a root when the working changes could be read.
git_root_of(ch) == IF ch.present THEN "/repo" ELSE "None"

EmptyRaw ==
    [schema |-> V_missing, spec |-> V_missing,
     require_spec_update_when_code_changes |-> V_missing,
     ignore |-> V_missing]

\* Value of the local `report` while it is not bound.
NoReport ==
    [task_id |-> "", task_title |-> "", git_root |-> "None",
     score |-> "unset", spec |-> NoSpec,
     telemetry |-> [files_changed |-> 0, spec_files_changed |-> 0,
                    non_spec_files_changed |-> 0],
     findings |-> <<>>, recommendations |-> <<>>]

insert(seq, i, x) == SubSeq(seq, 1, i - 1) \o <<x>> \o SubSeq(seq, i, Len(seq))

(***************************************************************************)
(* cli.py: the state of one run of cmd_wg_check besides its locals.        *)
(*   tool         "specdrift" or "specrift", the two variants of cli.py    *)
(*   args         the parsed command line (task: --task was given)         *)
(*   task_found   wg.show_task returns the task                            *)
(*   block        what the description embeds: "none", a block tomllib     *)
(*                rejects ("unparsable"), or one it parses ("parsed", the  *)
(*                mapping is raw)                                          *)
(*   write_fails  writing last.json raises                                 *)
(*   exit_code    the value returned, -1 while the command has not         *)
(*                returned                                                 *)
(*   uncaught     the exception that left cmd_wg_check, if any             *)
(*   calls        the collaborators reached so far                         *)
(*   persisted, logged, emitted, followups: the effects of the run         *)
(***************************************************************************)
ExitCode_ok == 0
ExitCode_findings == 3
ExitCode_usage == 2

NoLog == [written |-> FALSE, ok |-> FALSE, score |-> "", kinds |-> {}, next |-> ""]

IdleCli ==
    [tool |-> "specrift",
     args |-> [task |-> TRUE, json |-> FALSE, write_log |-> FALSE,
               create_followups |-> FALSE],
     task_found |-> TRUE,
     block |-> "parsed",
     write_fails |-> FALSE,
     exit_code |-> -1,
     uncaught |-> "none",
     calls |-> {},
     persisted |-> [written |-> FALSE, report |-> NoReport],
     logged |-> NoLog,
     emitted |-> [done |-> FALSE, format |-> "", report |-> NoReport],
     followups |-> {}]

\* The report of a description without an embedded block.
no_block_report(task_id, title, tool) ==
    [task_id |-> task_id, task_title |-> title, git_root |-> "None",
     score |-> "green", spec |-> NoSpec,
     telemetry |-> [note |-> "no " \o tool \o " block"],
     findings |-> <<>>, recommendations |-> <<>>]

\* The report of a block that could not be parsed or coerced.
degraded_report(task_id, title, tool, e) ==
    [task_id |-> task_id, task_title |-> title, git_root |-> "None",
     score |-> "yellow", spec |-> NoSpec,
     telemetry |-> [parse_error |-> e],
     findings |->
         <<Finding("invalid_" \o tool \o "_spec", "warn",
                   tool \o " block present but could not be parsed",
                   NoDetails)>>,
     recommendations |->
         <<Recommendation("high",
             "Fix the " \o tool \o " TOML block so it parses",
             "It can only advise on spec drift when it can read the spec configuration.")>>]

\* report["_<tool>_block"] = the fenced block.
with_block(r, tool) == r @@ [embedded_block |-> "fenced " \o tool \o " block"]

\* _write_state: the exception of a failed write is swallowed.
write_state(c, r) ==
    IF c.write_fails THEN c.persisted ELSE [written |-> TRUE, report |-> r]

\* _maybe_write_log: the message handed to wg.wg_log.
log_message(r) ==
    IF r.findings = <<>>
    THEN [written |-> TRUE, ok |-> TRUE, score |-> "", kinds |-> {}, next |-> ""]
    ELSE [written |-> TRUE, ok |-> FALSE, score |-> r.score,
          kinds |-> {r.findings[i].kind : i \in 1..Len(r.findings)},
          next |-> IF r.recommendations # <<>>
                   THEN r.recommendations[1].action ELSE ""]

write_log(c, r) == IF c.args.write_log THEN log_message(r) ELSE c.logged

\* print(json.dumps(report)) or _emit_text(report).
emit(c, r) ==
    [done |-> TRUE, format |-> IF c.args.json THEN "json" ELSE "text",
     report |-> r]

\* The score decides the exit code.
exit_code_by_score(r) ==
    IF r.score = "red" THEN ExitCode_findings ELSE ExitCode_ok

exit_code_of(r) ==
    IF r.findings # <<>> THEN ExitCode_findings ELSE ExitCode_ok

\* The follow-up tasks wg.ensure_task is asked for.
followups_of(r) ==
    {"drift-spec-" \o r.task_id :
        i \in {m \in 1..Len(r.findings) :
                  r.findings[m].kind = "spec_not_updated"}}

(***************************************************************************)
(* GlobSpec: one call of match_path.                                       *)
(***************************************************************************)
InitGlob ==
    /\ pc = "match_path"
    /\ path \in PathPool
    /\ pattern \in PatternPool
    /\ matched = FALSE
    /\ raw = EmptyRaw /\ spec = NoSpec /\ exc = "none"
    /\ changes = NoChanges /\ report = NoReport /\ prev = NoReport
    /\ prev_changes = NoChanges
    /\ cli = IdleCli

MatchPath ==
    /\ pc = "match_path"
    /\ matched' = match_path(path, pattern)
    /\ pc' = "matched"
    /\ UNCHANGED <<path, pattern, raw, spec, exc, changes, report, prev,
                 prev_changes, cli>>

NextGlob == MatchPath

GlobSpec == InitGlob /\ [][NextGlob]_vars

(***************************************************************************)
(* Spec: compute_spec_drift on a config and the working changes, and a     *)
(* second run after one more file of the working tree has changed.         *)
(***************************************************************************)
Init ==
    /\ pc = "compute"
    /\ spec \in ConfigPool
    /\ changes \in ChangesPool
    /\ report = NoReport /\ prev = NoReport /\ prev_changes = NoChanges
    /\ cli = IdleCli
    /\ path = <<>> /\ pattern = <<>> /\ matched = FALSE
    /\ raw = EmptyRaw /\ exc = "none"

ComputeSpecDrift ==
    /\ pc = "compute"
    /\ report' = compute_spec_drift(TASK_ID, TASK_TITLE, spec,
                                    git_root_of(changes), changes)
    /\ pc' = "done"
    /\ UNCHANGED <<path, pattern, matched, raw, spec, exc, changes, prev,
                 prev_changes, cli>>

\* path records the file that was added between the two runs.
Recheck ==
    /\ pc = "done"
    /\ changes.present
    /\ \E f \in FilePool, i \in 1..(Len(changes.changed_files) + 1) :
          /\ path' = f
          /\ changes' = WorkingChanges(insert(changes.changed_files, i, f))
    /\ prev' = report
    /\ prev_changes' = changes
    /\ report' = compute_spec_drift(TASK_ID, TASK_TITLE, spec,
                                    git_root_of(changes'), changes')
    /\ pc' = "rechecked"
    /\ UNCHANGED <<pattern, matched, raw, spec, exc, cli>>

Next == ComputeSpecDrift \/ Recheck

Spec == Init /\ [][Next]_vars

(***************************************************************************)
(* cli.py: the steps of cmd_wg_check.                                      *)
(***************************************************************************)
Usage ==
    /\ pc = "start"
    /\ ~cli.args.task
    /\ cli' = [cli EXCEPT !.exit_code = ExitCode_usage]
    /\ pc' = "exit"
    /\ UNCHANGED <<path, pattern, matched, raw, spec, exc, changes, report,
                   prev, prev_changes>>

\* _load_task raises ValueError, which nothing in cmd_wg_check catches.
TaskNotFound ==
    /\ pc = "start"
    /\ cli.args.task
    /\ ~cli.task_found
    /\ cli' = [cli EXCEPT !.uncaught = "ValueError",
                          !.calls = @ \cup {"show_task"}]
    /\ pc' = "crashed"
    /\ UNCHANGED <<path, pattern, matched, raw, spec, exc, changes, report,
                   prev, prev_changes>>

NoBlock ==
    /\ pc = "start"
    /\ cli.args.task
    /\ cli.task_found
    /\ cli.block = "none"
    /\ report' = no_block_report(TASK_ID, TASK_TITLE, cli.tool)
    /\ cli' = [cli EXCEPT !.calls = @ \cup {"show_task", "extract", "emit"},
                          !.emitted = emit(cli, report'),
                          !.exit_code = ExitCode_ok]
    /\ pc' = "exit"
    /\ UNCHANGED <<path, pattern, matched, raw, spec, exc, changes, prev,
                   prev_changes>>

BlockFound ==
    /\ pc = "start"
    /\ cli.args.task
    /\ cli.task_found
    /\ cli.block # "none"
    /\ cli' = [cli EXCEPT !.calls = @ \cup {"show_task", "extract"}]
    /\ pc' = "parse"
    /\ UNCHANGED <<path, pattern, matched, raw, spec, exc, changes, report,
                   prev, prev_changes>>

\* parse_<tool>_spec inside the try block: tomllib raises or returns raw.
Parse ==
    /\ pc = "parse"
    /\ cli' = [cli EXCEPT !.calls = @ \cup {"parse"}]
    /\ IF cli.block = "unparsable"
       THEN exc' = "TOMLDecodeError" /\ pc' = "raised"
       ELSE exc' = exc /\ pc' = "from_raw"
    /\ UNCHANGED <<path, pattern, matched, raw, spec, changes, report, prev,
                   prev_changes>>

FromRaw ==
    /\ pc = "from_raw"
    /\ LET res == from_raw(raw)
       IN  /\ spec' = res.value
           /\ exc' = res.exc
           /\ pc' = IF res.exc = "none" THEN "built" ELSE "raised"
    /\ cli' = [cli EXCEPT !.calls = @ \cup {"from_raw"}]
    /\ UNCHANGED <<path, pattern, matched, raw, changes, report, prev,
                   prev_changes>>

\* The except branch, which ends at pc = next: "exit" for its return.
ParseFailedTo(next) ==
    /\ pc = "raised"
    /\ report' = with_block(degraded_report(TASK_ID, TASK_TITLE, cli.tool, exc),
                            cli.tool)
    /\ cli' = [cli EXCEPT
                  !.calls = @ \cup {"write_state", "emit"}
                              \cup (IF cli.args.write_log THEN {"wg_log"} ELSE {}),
                  !.persisted = write_state(cli, report'),
                  !.logged = write_log(cli, report'),
                  !.emitted = emit(cli, report'),
                  !.exit_code = ExitCode_findings]
    /\ pc' = next
    /\ UNCHANGED <<path, pattern, matched, raw, spec, exc, changes, prev,
                   prev_changes>>

\* The return of the except branch is missing: the check goes on.
ParseFailed_no_return == ParseFailedTo("built")

ParseFailed == ParseFailedTo("exit")

Check ==
    /\ pc = "built"
    /\ report' = with_block(compute_spec_drift(TASK_ID, TASK_TITLE, spec,
                                               git_root_of(changes), changes),
                            cli.tool)
    /\ cli' = [cli EXCEPT
                  !.calls = @ \cup {"get_git_root", "compute_spec_drift",
                                    "write_state"}
                              \cup (IF changes.present
                                    THEN {"get_working_changes"} ELSE {}),
                  !.persisted = write_state(cli, report')]
    /\ pc' = "checked"
    /\ UNCHANGED <<path, pattern, matched, raw, spec, exc, changes, prev,
                   prev_changes>>

\* Lines 199-209 with --create-followups: _maybe_create_followups rebuilds
\* the config from report["spec"] (spec_raw = report.get("spec") or {}).
CreateFollowups ==
    /\ pc = "checked"
    /\ cli.args.create_followups
    /\ raw' = asdict(report.spec)
    /\ LET res == from_raw(raw')
       IN  /\ spec' = res.value
           /\ exc' = res.exc
    /\ cli' = [cli EXCEPT
                  !.calls = @ \cup {"create_followups", "from_raw", "emit"}
                              \cup (IF cli.args.write_log THEN {"wg_log"} ELSE {})
                              \cup (IF followups_of(report) # {}
                                    THEN {"ensure_task"} ELSE {}),
                  !.logged = write_log(cli, report),
                  !.followups = followups_of(report),
                  !.emitted = emit(cli, report),
                  !.exit_code = exit_code_of(report)]
    /\ pc' = "exit"
    /\ UNCHANGED <<path, pattern, matched, changes, report, prev, prev_changes>>

\* Lines 199-209 without --create-followups.
Finish ==
    /\ pc = "checked"
    /\ ~cli.args.create_followups
    /\ cli' = [cli EXCEPT
                  !.calls = @ \cup {"emit"}
                              \cup (IF cli.args.write_log THEN {"wg_log"} ELSE {}),
                  !.logged = write_log(cli, report),
                  !.emitted = emit(cli, report),
                  !.exit_code = exit_code_of(report)]
    /\ pc' = "exit"
    /\ UNCHANGED <<path, pattern, matched, raw, spec, exc, changes, report,
                   prev, prev_changes>>

(***************************************************************************)
(* CliSpec: the part of cmd_wg_check from the parsed block onwards.        *)
(***************************************************************************)
InitCli ==
    /\ pc = "from_raw"
    /\ raw \in RawPool
    /\ changes \in CliChangesPool
    /\ spec = NoSpec /\ exc = "none"
    /\ report = NoReport /\ prev = NoReport
    /\ prev_changes = NoChanges
    /\ \E f \in BOOLEAN : cli = [IdleCli EXCEPT !.args.create_followups = f]
    /\ path = <<>> /\ pattern = <<>> /\ matched = FALSE

NextCli == FromRaw \/ ParseFailed \/ Check \/ CreateFollowups \/ Finish

CliSpec == InitCli /\ [][NextCli]_vars

(***************************************************************************)
(* WgSpec: a whole run of cmd_wg_check, for both variants of the tool.     *)
(***************************************************************************)
WgRawPool ==
    {EmptyRaw,
     [EmptyRaw EXCEPT !.spec = V_list(<<E_str(G_DOCS)>>)],
     [EmptyRaw EXCEPT !.schema = V_int(2), !.spec = V_list(<<E_str(G_DOCS)>>)],
     [EmptyRaw EXCEPT !.spec = V_list(<<E_str(G_DOCS)>>),
                      !.require_spec_update_when_code_changes = V_bool(FALSE)],
     [EmptyRaw EXCEPT !.schema = V_str(<<"x">>)],
     [EmptyRaw EXCEPT !.spec = V_int(5)]}

ArgsPool ==
    [task : BOOLEAN, json : BOOLEAN, write_log : BOOLEAN,
     create_followups : BOOLEAN]

InitWg ==
    /\ pc = "start"
    /\ \E t \in {"specdrift", "specrift"}, a \in ArgsPool, found \in BOOLEAN,
          b \in {"none", "unparsable", "parsed"}, wf \in BOOLEAN :
          cli = [IdleCli EXCEPT !.tool = t, !.args = a, !.task_found = found,
                                !.block = b, !.write_fails = wf]
    /\ IF cli.block = "parsed"
       THEN raw \in WgRawPool /\ changes \in CliChangesPool
       ELSE raw = EmptyRaw /\ changes = NoChanges
    /\ spec = NoSpec /\ exc = "none"
    /\ report = NoReport /\ prev = NoReport
    /\ prev_changes = NoChanges
    /\ path = <<>> /\ pattern = <<>> /\ matched = FALSE

NextWg ==
    \/ Usage \/ TaskNotFound \/ NoBlock \/ BlockFound \/ Parse
    \/ FromRaw \/ ParseFailed \/ Check \/ CreateFollowups \/ Finish

WgSpec == InitWg /\ [][NextWg]_vars

(***************************************************************************)
(* TailSpec: the score and recommendation passes of compute_spec_drift     *)
(* applied to an arbitrary list of findings.                               *)
(***************************************************************************)
InitTail ==
    /\ pc = "tail"
    /\ \E fs \in TuplesUpTo(FindingPool, MaxFindings) :
          report = [NoReport EXCEPT !.findings = fs]
    /\ prev = NoReport /\ prev_changes = NoChanges
    /\ cli = IdleCli
    /\ path = <<>> /\ pattern = <<>> /\ matched = FALSE
    /\ raw = EmptyRaw /\ spec = NoSpec /\ exc = "none"
    /\ changes = NoChanges

ScoreAndRecommend ==
    /\ pc = "tail"
    /\ report' = [report EXCEPT
                     !.score = score_of(report.findings),
                     !.recommendations = recommendations_of(report.findings)]
    /\ pc' = "done"
    /\ UNCHANGED <<path, pattern, matched, raw, spec, exc, changes, prev,
                 prev_changes, cli>>

NextTail == ScoreAndRecommend

TailSpec == InitTail /\ [][NextTail]_vars

(***************************************************************************)
(* Vocabulary of the properties, stated with quantifiers over positions    *)
(* rather than with the filters of the model.                              *)
(***************************************************************************)
Returned == pc \in {"done", "rechecked"}

InputFiles(ch) == IF ch.present THEN ch.changed_files ELSE <<>>

NotIgnored(c, p) ==
    /\ ~startswith(p, WG_PREFIX)
    /\ ~startswith(p, GIT_PREFIX)
    /\ \A k \in 1..Len(c.ignore) : ~match_path(p, c.ignore[k])

MatchesSpec(c, p) == \E k \in 1..Len(c.spec) : match_path(p, c.spec[k])

\* Positions of the input files that are kept / kept and outside the spec.
KeptAt(c, ch) ==
    {i \in 1..Len(InputFiles(ch)) : NotIgnored(c, InputFiles(ch)[i])}

NonSpecAt(c, ch) ==
    {i \in KeptAt(c, ch) : ~MatchesSpec(c, InputFiles(ch)[i])}

\* seq lists, in increasing order of position, the entries of src at idx.
IsSubsequenceAt(seq, src, idx) ==
    /\ Len(seq) = Cardinality(idx)
    /\ \A i \in idx : seq[Cardinality({m \in idx : m <= i})] = src[i]

HasFinding(r, kind) == \E i \in 1..Len(r.findings) : r.findings[i].kind = kind

KindsOf(r) == {r.findings[i].kind : i \in 1..Len(r.findings)}

\* C1: the report holds a spec_not_updated finding (always of severity
\* warn) iff the policy flag is set, some non-ignored changed file matches
\* no spec glob, and no non-ignored changed file matches a spec glob.
C1_SpecNotUpdatedIff ==
    Returned =>
        /\ HasFinding(report, "spec_not_updated")
           <=> /\ spec.require_spec_update_when_code_changes
               /\ NonSpecAt(spec, changes) # {}
               /\ NonSpecAt(spec, changes) = KeptAt(spec, changes)
        /\ \A i \in 1..Len(report.findings) :
              report.findings[i].kind = "spec_not_updated"
                  => report.findings[i].severity = "warn"

C1_Witness ==
    /\ pc = "done"
    /\ HasFinding(report, "spec_not_updated")
    /\ Len(InputFiles(changes)) > Cardinality(KeptAt(spec, changes))

\* C2: unsupported_schema and invalid_spec_config are decided by the config
\* alone, whatever the changes (absent, empty or not); a valid config with
\* absent changes gives an empty, green report with zero counts.
C2_ConfigFindings ==
    Returned =>
        /\ HasFinding(report, "unsupported_schema") <=> spec.schema # 1
        /\ HasFinding(report, "invalid_spec_config") <=> spec.spec = <<>>
        /\ (spec.schema = 1 /\ spec.spec # <<>> /\ ~changes.present)
              => /\ report.findings = <<>>
                 /\ report.score = "green"
                 /\ report.telemetry.files_changed = 0
                 /\ report.telemetry.spec_files_changed = 0
                 /\ report.telemetry.non_spec_files_changed = 0

C2_Witness ==
    /\ pc = "done"
    /\ ~changes.present
    /\ spec.schema # 1
    /\ spec.spec = <<>>
    /\ KindsOf(report) = {"unsupported_schema", "invalid_spec_config"}

\* C3: the score is red if some finding has severity error, else yellow if
\* some finding has severity warn, else green.
C3_ScoreFromSeverities ==
    Returned =>
        LET sev == {report.findings[i].severity : i \in 1..Len(report.findings)}
        IN  report.score = CASE "error" \in sev -> "red"
                             [] "error" \notin sev /\ "warn" \in sev -> "yellow"
                             [] OTHER -> "green"

C3_Witness ==
    /\ pc = "done"
    /\ report.score = "yellow"
    /\ Len(report.findings) = 1

\* C4: the classified files are the input files, in input order, that match
\* no ignore glob and do not start with .workgraph/ or .git/; files_changed
\* counts them, the two classes partition them, and no classified file and
\* no entry of the spec_not_updated details has one of the two prefixes.
C4_FilteredFiles ==
    Returned =>
        LET kept == changed_files_of(spec, changes)
        IN  /\ IsSubsequenceAt(kept, InputFiles(changes), KeptAt(spec, changes))
            /\ report.telemetry.files_changed = Cardinality(KeptAt(spec, changes))
            /\ report.telemetry.non_spec_files_changed
                  = Cardinality(NonSpecAt(spec, changes))
            /\ report.telemetry.spec_files_changed
                  = Cardinality(KeptAt(spec, changes) \ NonSpecAt(spec, changes))
            /\ \A i \in 1..Len(kept) :
                  ~startswith(kept[i], WG_PREFIX) /\ ~startswith(kept[i], GIT_PREFIX)
            /\ \A i \in 1..Len(report.findings) :
                  report.findings[i].kind = "spec_not_updated" =>
                      LET d == report.findings[i].details.changed_non_spec
                      IN  /\ IsSubsequenceAt(d, InputFiles(changes),
                                             NonSpecAt(spec, changes))
                          /\ \A m \in 1..Len(d) :
                                /\ ~startswith(d[m], WG_PREFIX)
                                /\ ~startswith(d[m], GIT_PREFIX)

\* A config without the implicit globs, a .git/ file among the changes.
C4_Witness ==
    /\ pc = "done"
    /\ spec.ignore = <<>>
    /\ HasFinding(report, "spec_not_updated")
    /\ \E i \in 1..Len(InputFiles(changes)) :
          startswith(InputFiles(changes)[i], GIT_PREFIX)
    /\ report.telemetry.files_changed = 1

\* C5: the recommendations hold exactly one entry per known finding kind
\* present, none for other kinds, in the order in which the kinds first
\* occur in findings, and no action text twice.
KnownKinds == {"spec_not_updated", "invalid_spec_config", "unsupported_schema"}

FirstAt(fs, kind) ==
    CHOOSE i \in 1..Len(fs) :
        fs[i].kind = kind /\ \A m \in 1..(i - 1) : fs[m].kind # kind

C5_Recommendations ==
    pc = "done" =>
        LET fs == report.findings
            recs == report.recommendations
            present == {kind \in KnownKinds : HasFinding(report, kind)}
        IN  /\ Len(recs) = Cardinality(present)
            /\ \A kind \in present :
                  LET first == FirstAt(fs, kind)
                      rank == Cardinality({k2 \in present :
                                              FirstAt(fs, k2) <= first})
                  IN  <<recs[rank]>> = recommendation_for(fs[first])
            /\ \A i, j \in 1..Len(recs) :
                  recs[i].action = recs[j].action => i = j

C5_Witness ==
    /\ pc = "done"
    /\ \E i, j \in 1..Len(report.findings) :
          /\ i < j
          /\ report.findings[i].kind = "spec_not_updated"
          /\ report.findings[j].kind = "spec_not_updated"
    /\ HasFinding(report, "invalid_specrift_spec")
    /\ Len(report.recommendations) = 1

(***************************************************************************)
(* Properties of from_raw.                                                 *)
(***************************************************************************)
Count(seq, x) == Cardinality({i \in 1..Len(seq) : seq[i] = x})

\* A config is held by spec: from_raw has returned.
Built == pc \in {"built", "checked", "exit"} /\ exc = "none"

\* What the user declared under a key: how many entries, how many equal g.
DeclaredLen(v) ==
    IF v.k = "list" THEN Len(v.xs) ELSE IF v.k = "str" THEN Len(v.s) ELSE 0

DeclaredCount(v, g) ==
    IF v.k = "list"
    THEN Cardinality({i \in 1..Len(v.xs) : v.xs[i].k = "str" /\ v.xs[i].s = g})
    ELSE IF v.k = "str"
    THEN Cardinality({i \in 1..Len(v.s) : <<v.s[i]>> = g})
    ELSE 0

\* C6 as stated: each implicit pattern occurs exactly once in the ignore
\* list of every config from_raw returns, after the user's patterns.
C6_ImplicitExactlyOnce ==
    Built =>
        /\ Count(spec.ignore, WG_GLOB) = 1
        /\ Count(spec.ignore, GIT_GLOB) = 1
        /\ Len(spec.ignore) >= 2
        /\ spec.ignore[Len(spec.ignore) - 1] = WG_GLOB
        /\ spec.ignore[Len(spec.ignore)] = GIT_GLOB

\* C6 amended: the ignore list is the user's entries followed by the two
\* implicit patterns as its last two entries, in the fixed order; each
\* implicit pattern occurs once more than the user declared it, hence
\* exactly once iff the user's list does not name it.
C6_ImplicitAppended ==
    Built =>
        /\ Len(spec.ignore) = DeclaredLen(raw.ignore) + 2
        /\ spec.ignore[Len(spec.ignore) - 1] = WG_GLOB
        /\ spec.ignore[Len(spec.ignore)] = GIT_GLOB
        /\ \A g \in {WG_GLOB, GIT_GLOB} :
              Count(spec.ignore, g) = 1 + DeclaredCount(raw.ignore, g)

\* from_raw applied to the mapping form of a config it produced.
C6_Witness ==
    /\ pc = "exit"
    /\ exc = "none"
    /\ DeclaredCount(raw.ignore, GIT_GLOB) = 2
    /\ Count(spec.ignore, GIT_GLOB) = 3
    /\ Count(spec.ignore, WG_GLOB) = 2

IntConvertible(v) ==
    \/ v.k \in {"missing", "int", "bool"}
    \/ /\ v.k = "str"
       /\ \E first \in 1..2 :
             /\ first <= Len(v.s)
             /\ first = 2 => v.s[1] \in {"-", "+"}
             /\ \A i \in first..Len(v.s) : IsDigit(v.s[i])

Iterable(v) ==
    \/ v.k \in {"missing", "list", "str"}
    \/ v.k \in {"int", "bool"} /\ v.n = 0

SegStarts(s) ==
    {i \in 1..Len(s) : s[i] # SLASH /\ (i = 1 \/ s[i - 1] = SLASH)}

SegAt(s, i) ==
    SubSeq(s, i,
           CHOOSE e \in i..Len(s) :
               /\ \A m \in i..e : s[m] # SLASH
               /\ (e = Len(s) \/ s[e + 1] = SLASH))

Segments(s) ==
    [n \in 1..Cardinality(SegStarts(s)) |->
        SegAt(s, CHOOSE i \in SegStarts(s) :
                     Cardinality({m \in SegStarts(s) : m <= i}) = n)]

HasStarStar(segs) == \E j \in 1..Len(segs) : segs[j] = STARSTAR

SegmentWise(pp, qq) ==
    /\ Len(pp) = Len(qq)
    /\ \A i \in 1..Len(qq) : fnmatchcase(pp[i], qq[i])

\* Reference semantics: the first ** stands for k >= 0 removed segments.
RECURSIVE StarMatch(_, _)
StarMatch(pp, qq) ==
    IF ~HasStarStar(qq) THEN SegmentWise(pp, qq)
    ELSE LET j == CHOOSE n \in 1..Len(qq) :
                      qq[n] = STARSTAR /\ \A m \in 1..(n - 1) : qq[m] # STARSTAR
             pre == SubSeq(qq, 1, j - 1)
             post == SubSeq(qq, j + 1, Len(qq))
         IN  \E k \in 0..Len(pp) :
                /\ (j - 1) + k <= Len(pp)
                /\ StarMatch(SubSeq(pp, 1, j - 1) \o SubSeq(pp, j + k, Len(pp)),
                             pre \o post)

\* C8: a ** segment matches zero or more consecutive path segments: the
\* match holds iff removing some k >= 0 segments at the position of **
\* leaves a path that matches the pattern without that **.
C8_StarStar ==
    pc = "matched" =>
        /\ HasStarStar(Segments(pattern))
              => (matched <=> StarMatch(Segments(path), Segments(pattern)))
        /\ pattern = STARSTAR => matched
        /\ pattern = G_ANY_C =>
              /\ path = <<"c">> => matched
              /\ path = <<"a", "/", "b", "/", "c">> => matched
              /\ path = <<"a", "/", "b">> => ~matched
        /\ (pattern = <<"a", "/", "*", "*">> /\ path = <<"a">>) => matched

\* ** consumes zero segments in front of c, and two in a/b/c.
C8_Witness ==
    /\ pc = "matched"
    /\ pattern = G_ANY_C
    /\ path = <<"c">>
    /\ matched

\* C9: without ** the match holds iff path and pattern have the same number
\* of segments and the segments match position by position; the empty
\* pattern matches only the empty path.
C9_Anchored ==
    (pc = "matched" /\ ~HasStarStar(Segments(pattern))) =>
        /\ matched <=> SegmentWise(Segments(path), Segments(pattern))
        /\ Segments(pattern) = <<>> => (matched <=> Segments(path) = <<>>)

\* The pattern covers a proper prefix of the path and does not match.
C9_Witness ==
    /\ pc = "matched"
    /\ ~matched
    /\ pattern = <<"a">>
    /\ path = <<"a", "/", "b">>

(***************************************************************************)
(* Monotonicity of compute_spec_drift.                                     *)
(***************************************************************************)
\* The first run saw no non-ignored spec file, the added file is a spec file.
AddedSpecFile ==
    /\ pc = "rechecked"
    /\ KeptAt(spec, prev_changes) = NonSpecAt(spec, prev_changes)
    /\ MatchesSpec(spec, path)

\* C10: adding a file that matches a spec glob to changes without a
\* non-ignored spec file adds no finding kind, and removes no kind other
\* than spec_not_updated.
C10_Monotone ==
    AddedSpecFile =>
        /\ KindsOf(report) \subseteq KindsOf(prev)
        /\ KindsOf(prev) \ KindsOf(report) \subseteq {"spec_not_updated"}

C10_Witness ==
    /\ AddedSpecFile
    /\ HasFinding(prev, "spec_not_updated")
    /\ ~HasFinding(report, "spec_not_updated")
    /\ HasFinding(report, "unsupported_schema")

(***************************************************************************)
(* Shape of the reports of compute_spec_drift.                             *)
(***************************************************************************)
KindRank(kind) ==
    CASE kind = "unsupported_schema" -> 1
      [] kind = "invalid_spec_config" -> 2
      [] kind = "spec_not_updated" -> 3
      [] OTHER -> 0

\* C13: a report of compute_spec_drift has at most three findings, of the
\* kinds unsupported_schema, invalid_spec_config, spec_not_updated, each at
\* most once and in that order, all of severity warn; so the score is never
\* red, it is yellow iff there is a finding, and there are as many
\* recommendations as findings.
C13_ReportShape ==
    Returned =>
        LET fs == report.findings
        IN  /\ Len(fs) <= 3
            /\ \A i \in 1..Len(fs) :
                  /\ fs[i].kind \in KnownKinds
                  /\ fs[i].severity = "warn"
            /\ \A i, j \in 1..Len(fs) :
                  i < j => KindRank(fs[i].kind) < KindRank(fs[j].kind)
            /\ report.score \in {"green", "yellow"}
            /\ report.score = "yellow" <=> fs # <<>>
            /\ Len(report.recommendations) = Len(fs)

C13_Witness ==
    /\ pc = "done"
    /\ Len(report.findings) = 3
    /\ Len(report.recommendations) = 3
    /\ report.score = "yellow"

(***************************************************************************)
(* Properties of cmd_wg_check.                                             *)
(***************************************************************************)
\* C11: a run with --task that returns (no block, unparsable block, normal
\* check) returns 0 iff the emitted report has no findings and 3 otherwise,
\* whether or not the state write failed; 2 is returned only without
\* --task, before any collaborator is reached or any report is built.
C11_ExitCodes ==
    /\ pc # "exit" => cli.exit_code = -1
    /\ pc = "exit" =>
          /\ cli.exit_code \in {0, 2, 3}
          /\ cli.exit_code = 2 <=> ~cli.args.task
          /\ cli.args.task =>
                /\ cli.emitted.done
                /\ cli.emitted.report = report
                /\ cli.exit_code = 0 <=> cli.emitted.report.findings = <<>>
                /\ cli.exit_code = 3 <=> cli.emitted.report.findings # <<>>
          /\ ~cli.args.task =>
                /\ report = NoReport
                /\ cli.calls = {}
                /\ ~cli.emitted.done
                /\ ~cli.persisted.written

\* A normal check with findings whose state write failed.
C11_Witness ==
    /\ pc = "exit"
    /\ cli.block = "parsed"
    /\ exc = "none"
    /\ cli.write_fails
    /\ ~cli.persisted.written
    /\ "compute_spec_drift" \in cli.calls
    /\ cli.exit_code = 3

\* The degraded report of the variant that runs.
IsDegraded(r) ==
    /\ r.score = "yellow"
    /\ Len(r.findings) = 1
    /\ r.findings[1].kind = IF cli.tool = "specdrift"
                            THEN "invalid_specdrift_spec"
                            ELSE "invalid_specrift_spec"
    /\ r.findings[1].severity = "warn"
    /\ Len(r.recommendations) = 1

\* C12: once parsing the block or building the config has failed, the run
\* never reaches the git root, the working changes, compute_spec_drift or
\* the follow-up creation, and the report it persists, logs and emits is
\* the degraded one: yellow, one finding invalid_<tool>_spec of severity
\* warn, one recommendation.
C12_ShortCircuit ==
    exc # "none" =>
        /\ pc \in {"raised", "exit"}
        /\ cli.calls \cap {"get_git_root", "get_working_changes",
                           "compute_spec_drift", "create_followups",
                           "ensure_task"} = {}
        /\ cli.followups = {}
        /\ pc = "exit" =>
              /\ cli.emitted.done
              /\ IsDegraded(cli.emitted.report)
              /\ cli.persisted.written <=> ~cli.write_fails
              /\ cli.persisted.written => IsDegraded(cli.persisted.report)
              /\ cli.logged.written <=> cli.args.write_log
              /\ cli.logged.written =>
                    /\ ~cli.logged.ok
                    /\ cli.logged.score = "yellow"
                    /\ cli.logged.kinds
                          = {cli.emitted.report.findings[1].kind}
                    /\ cli.logged.next
                          = cli.emitted.report.recommendations[1].action

\* from_raw raised on the parsed block of the specdrift variant.
C12_Witness ==
    /\ pc = "exit"
    /\ exc = "ValueError"
    /\ cli.tool = "specdrift"
    /\ cli.args.write_log
    /\ cli.args.create_followups
    /\ cli.logged.written
    /\ cli.persisted.written
    /\ cli.exit_code = 3

====
